---- MODULE Spec2Model ----
(***************************************************************************)
(* CloudinaryService (src/src/cloudinary.service.ts): the gateway that     *)
(* wraps the vendor SDK.  The state is the service's fields, the           *)
(* configuration applied to the shared SDK handle, the logger's output,    *)
(* and one record per method invocation holding the promises, the upload   *)
(* channel and the position of the invocation's code.  Date.now() is an    *)
(* input read by the call that uses it.                                    *)
(*                                                                         *)
(* JavaScript runs each synchronous segment to completion, so one action   *)
(* is one segment: a method body up to its first await, the continuation   *)
(* after the await, or a callback invoked by the SDK.                      *)
(***************************************************************************)
EXTENDS Integers, Sequences, FiniteSets, TLC

VARIABLES
    options,      \* this.options, the injected CloudinaryModuleOptions
    config,       \* what cloudinary.config(...) was last given
    constructed,  \* the constructor has run
    logger,       \* what this.logger has written, in order
    calls         \* one record per method invocation, in order of invocation

vars == <<options, config, constructed, logger, calls>>

----------------------------------------------------------------------------
(* Bounds of the model. *)

\* method invocations in one behaviour
MaxCalls == 2

----------------------------------------------------------------------------
(* JavaScript values.  A primitive is a record with one reserved field; an *)
(* object is a function from its own property names to values.             *)

Undefined == [undef |-> TRUE]

Str(s) == [str |-> s]

\* a string given by its characters, where the code looks inside the string
Chars(cs) == [chars |-> cs]

List(l) == [list |-> l]

Num(n) == [num |-> n]

EmptyObject == [k \in {} |-> Undefined]

IsPrimitive(v) ==
    DOMAIN v \in {{"undef"}, {"str"}, {"chars"}, {"template"}, {"list"}, {"num"}}

\* o.k : undefined when o has no own property k
Get(o, k) == IF (~IsPrimitive(o)) /\ k \in DOMAIN o THEN o[k] ELSE Undefined

\* if (v) / v && ... : undefined and the empty string are falsy, objects are truthy
Truthy(v) == v # Undefined /\ v # Str("") /\ v # Chars(<<>>)

\* the own enumerable properties ...v contributes to an object literal
OwnProperties(v) == IF IsPrimitive(v) THEN EmptyObject ELSE v

\* { ...a, ...b } : b's own properties override a's, also when their value is undefined
Spread(a, b) ==
    LET pa == OwnProperties(a)
        pb == OwnProperties(b)
    IN  [k \in DOMAIN pa \cup DOMAIN pb |-> IF k \in DOMAIN pb THEN pb[k] ELSE pa[k]]

\* "" + v and `${v}` : undefined becomes the string "undefined"
ToStr(v) == IF v = Undefined THEN Str("undefined") ELSE v

\* a template string, kept as its literal parts and stringified substitutions
Template(parts) == [template |-> parts]

DigitChars == <<"0", "1", "2", "3", "4", "5", "6", "7", "8", "9">>

RECURSIVE NumberToString(_)
\* n.toString() for a non-negative integer
NumberToString(n) ==
    IF n < 10 THEN <<DigitChars[n + 1]>>
    ELSE NumberToString(n \div 10) \o <<DigitChars[(n % 10) + 1]>>

----------------------------------------------------------------------------
(* Promises: a settled promise ignores further resolve and reject calls.   *)

Pending == [state |-> "pending"]

Fulfilled(v) == [state |-> "fulfilled", value |-> v]

Rejected(e) == [state |-> "rejected", reason |-> e]

resolve(p, v) == IF p.state = "pending" THEN Fulfilled(v) ELSE p

reject(p, e) == IF p.state = "pending" THEN Rejected(e) ELSE p

TypeError == [name |-> Str("TypeError")]

----------------------------------------------------------------------------
(* Inputs. *)

ModuleOptionsSet ==
    { [cloud_name |-> Str("demo"), api_key |-> Str("key"), api_secret |-> Str("secret")],
      [cloud_name |-> Str("demo"), api_key |-> Str("key")] }

\* what Date.now() may read, in milliseconds
ClockReadings == {9500, 10000}

PublicIds == {Str("abc")}

ResourceTypes == {Str("image")}

SignedUploadUrlOptionsSet ==
    { Undefined,
      EmptyObject,
      [folder |-> Str("f"), eager |-> List(<<Str("w_100")>>)],
      [folder |-> Undefined] }

----------------------------------------------------------------------------
(* constructor *)

\* Object.assign({}, options): a fresh object with options' own properties
ObjectAssign(o) == Spread(EmptyObject, o)

Constructor(o) ==
    /\ ~constructed
    /\ options' = o
    /\ config' = ObjectAssign(o)
    /\ constructed' = TRUE
    /\ UNCHANGED <<logger, calls>>

CanCall == constructed /\ Len(calls) < MaxCalls

----------------------------------------------------------------------------
(* createSignedUploadUrl *)

\* cloudinary.constant: the defaults the caller's options are merged over
defaultCreateSignedUploadUrlOptions == [folder |-> Str(""), eager |-> List(<<>>)]

\* utils.present of the SDK: not null and not the empty string once stringified
present(v) ==
    /\ v # Undefined
    /\ v # Str("")
    /\ v # Chars(<<>>)
    /\ v # List(<<>>)

\* toArray(v).join(","): the comma-separated items, kept as the list of items
toArrayJoin(v) == IF DOMAIN v = {"list"} THEN v.list ELSE <<v>>

\* the names of the signed parameters as sort() orders the "k=v" strings
SortedParamNames == <<"eager", "folder", "public_id", "timestamp">>

\* utils.api_sign_request: the present parameters as k=v, sorted and joined,
\* the secret appended, and the one-way hash of the result
api_sign_request(params_to_sign, api_secret) ==
    LET IsPresent(k) == k \in DOMAIN params_to_sign /\ present(params_to_sign[k])
        names == SelectSeq(SortedParamNames, IsPresent)
        to_sign == [i \in 1..Len(names) |->
                        <<names[i], toArrayJoin(params_to_sign[names[i]])>>]
    IN  [sha1 |-> <<to_sign, ToStr(api_secret)>>]

\* the upload endpoint, a template string over cloud_name and resourceType
UploadUrl(cloud_name, resourceType) ==
    Template(<<Str("https://api.cloudinary.com/v1_1/"), ToStr(cloud_name),
               Str("/"), ToStr(resourceType), Str("/upload")>>)

\* Math.floor(Date.now() / 1000).toString()
Timestamp(ms) == Chars(NumberToString(ms \div 1000))

\* a variant that signs the defaults' folder instead of the merged one
SignedParamsDefaultFolder(timestamp, merged, publicId) ==
    [timestamp |-> timestamp,
     folder |-> defaultCreateSignedUploadUrlOptions.folder,
     eager |-> Get(merged, "eager"),
     public_id |-> publicId]

\* the parameter object handed to api_sign_request
SignedParams(timestamp, merged, publicId) ==
    [timestamp |-> timestamp,
     folder |-> Get(merged, "folder"),
     eager |-> Get(merged, "eager"),
     public_id |-> publicId]

\* a variant that stores the merged per-call options in this.options
StoredOptionsOverwritten(stored, merged) == Spread(stored, merged)

\* this.options after createSignedUploadUrl: only the parameter is reassigned
StoredOptionsAfterSigning(stored, merged) == stored

createSignedUploadUrl(publicId, resourceType, callOptions, now) ==
    /\ CanCall
    /\ LET merged == Spread(defaultCreateSignedUploadUrlOptions, callOptions)
           url == UploadUrl(Get(options, "cloud_name"), resourceType)
           timestamp == Timestamp(now)
           signature == api_sign_request(SignedParams(timestamp, merged, publicId),
                                         Get(options, "api_secret"))
           returned == [url |-> url,
                        publicId |-> publicId,
                        apiKey |-> Get(options, "api_key"),
                        timestamp |-> timestamp,
                        eager |-> Get(merged, "eager"),
                        folder |-> Get(merged, "folder"),
                        signature |-> signature]
       IN  /\ calls' = Append(calls, [method |-> "createSignedUploadUrl",
                                      publicId |-> publicId,
                                      resourceType |-> resourceType,
                                      options |-> callOptions,
                                      promise |-> Fulfilled(returned)])
           /\ options' = StoredOptionsAfterSigning(options, merged)
    /\ UNCHANGED <<config, constructed, logger>>

----------------------------------------------------------------------------
(* uploadFile *)

Buffers == {[bytes |-> "b1"]}

ImagePng == Chars(<<"i", "m", "a", "g", "e", "/", "p", "n", "g">>)

VideoMp4 == Chars(<<"v", "i", "d", "e", "o", "/", "m", "p", "4">>)

\* a media type that names an image but does not start with "image"
XImage == Chars(<<"x", "-", "i", "m", "a", "g", "e">>)

MimeTypes == {ImagePng, VideoMp4, XImage}

Files == [buffer : Buffers, mimetype : MimeTypes]

\* the (file, sharpOptions) pairs uploadFile is called with
UploadFileArgs ==
    {<<f, Undefined>> : f \in {g \in Files : g.mimetype = ImagePng}}
    \cup {<<f, EmptyObject>> : f \in {g \in Files : g.mimetype \in {ImagePng, XImage}}}
    \cup {<<f, [width |-> Num(100)]>> : f \in {g \in Files : g.mimetype = VideoMp4}}

UploadApiOptionsSet == {Undefined}

SharpError == [message |-> Str("Input buffer contains unsupported image format")]

UploadApiResponse == [public_id |-> Str("abc"), secure_url |-> Str("https://res/abc")]

UploadApiErrorResponse == [message |-> Str("Invalid cloud_name"), http_code |-> Num(401)]

\* the (error, result) pairs the SDK hands to an upload callback
CallbackArgs == {<<UploadApiErrorResponse, Undefined>>, <<Undefined, UploadApiResponse>>}

DefaultWidth == 800

ImageWord == <<"i", "m", "a", "g", "e">>

\* mimetype.match(/^image/) is an array, truthy, exactly when the type starts with "image"
MatchesImage(mimetype) ==
    /\ Len(mimetype.chars) >= 5
    /\ SubSeq(mimetype.chars, 1, 5) = ImageWord

\* a variant that resizes whenever sharpOptions is given, whatever the media type
ResizeAppliesToAnyType(file, sharpOptions) == Truthy(sharpOptions)

\* sharpOptions && file.mimetype.match(/^image/)
ResizeApplies(file, sharpOptions) == Truthy(sharpOptions) /\ MatchesImage(file.mimetype)

\* { width: 800, ...sharpOptions }
ResizeOptions(sharpOptions) == Spread([width |-> Num(DefaultWidth)], sharpOptions)

\* sharp(buffer).resize(options).toBuffer() when it succeeds
Shrinked(buffer, resizeOptions) == [resized |-> buffer, options |-> resizeOptions]

Chunk(b) == [write |-> b]

EndOfInput == [end |-> TRUE]

\* a variant that pushes the caller's buffer although the image was resized
PushOriginalAfterResize(file, shrinkedImage) == <<Chunk(file.buffer), EndOfInput>>

\* stream.push(shrinkedImage); stream.push(null)
PushAfterResize(file, shrinkedImage) == <<Chunk(shrinkedImage), EndOfInput>>

\* stream.push(file.buffer); stream.push(null)
PushWithoutResize(file) == <<Chunk(file.buffer), EndOfInput>>

\* a variant that resolves whatever the callback was given
UploadStreamCallbackAlwaysResolves(promise, log, error, result) ==
    [promise |-> resolve(promise, result), logger |-> log, trace |-> <<"resolve">>]

\* the callback given to upload_stream
UploadStreamCallback(promise, log, error, result) ==
    IF Truthy(error)
    THEN [promise |-> reject(promise, error),
          logger |-> Append(log, [level |-> "error", message |-> error]),
          trace |-> <<"logger.error", "reject">>]
    ELSE [promise |-> resolve(promise, result), logger |-> log, trace |-> <<"resolve">>]

\* uploadFile up to its first await (or to its end when nothing is resized)
uploadFile(file, uploadOptions, sharpOptions) ==
    /\ CanCall
    /\ LET call == [method |-> "uploadFile",
                    file |-> file,
                    options |-> uploadOptions,
                    sharpOptions |-> sharpOptions,
                    promise |-> Pending,
                    channel |-> [options |-> uploadOptions, received |-> <<>>],
                    callback |-> Undefined]
       IN  IF ResizeApplies(file, sharpOptions)
           THEN calls' = Append(calls,
                    call @@ [pc |-> "await",
                             executor |-> Pending,
                             sharp |-> [state |-> "running",
                                        input |-> file.buffer,
                                        options |-> ResizeOptions(sharpOptions)],
                             stream |-> <<>>,
                             trace |-> <<"upload_stream", "sharp">>])
           ELSE calls' = Append(calls,
                    call @@ [pc |-> "piped",
                             executor |-> Fulfilled(Undefined),
                             sharp |-> [state |-> "none"],
                             stream |-> PushWithoutResize(file),
                             trace |-> <<"upload_stream", "push", "push(null)", "pipe">>])
    /\ UNCHANGED <<options, config, constructed, logger>>

IsUploadFile(c) == c \in DOMAIN calls /\ calls[c].method = "uploadFile"

\* the awaited toBuffer() fulfils: the rest of the executor runs
SharpFulfils(c) ==
    /\ IsUploadFile(c)
    /\ calls[c].pc = "await"
    /\ LET shrinkedImage == Shrinked(calls[c].sharp.input, calls[c].sharp.options)
       IN  calls' = [calls EXCEPT
                ![c].pc = "piped",
                ![c].executor = Fulfilled(Undefined),
                ![c].sharp = [@ EXCEPT !.state = "done"],
                ![c].stream = PushAfterResize(calls[c].file, shrinkedImage),
                ![c].trace = @ \o <<"push", "push(null)", "pipe">>]
    /\ UNCHANGED <<options, config, constructed, logger>>

\* the awaited toBuffer() rejects: the await throws inside the async executor,
\* whose own promise is rejected; nothing catches it and nothing calls reject
SharpRejects(c, err) ==
    /\ IsUploadFile(c)
    /\ calls[c].pc = "await"
    /\ calls' = [calls EXCEPT
            ![c].pc = "thrown",
            ![c].executor = Rejected(err),
            ![c].sharp = [@ EXCEPT !.state = "failed"]]
    /\ UNCHANGED <<options, config, constructed, logger>>

\* the piped Readable hands its next buffered item to the upload stream
StreamFlows(c) ==
    /\ IsUploadFile(c)
    /\ calls[c].pc = "piped"
    /\ calls' = [calls EXCEPT
            ![c].channel = [@ EXCEPT !.received = Append(@, Head(calls[c].stream))],
            ![c].stream = Tail(@),
            ![c].pc = IF Len(calls[c].stream) = 1 THEN "done" ELSE "piped"]
    /\ UNCHANGED <<options, config, constructed, logger>>

ChannelEnded(c) ==
    /\ calls[c].channel.received # <<>>
    /\ calls[c].channel.received[Len(calls[c].channel.received)] = EndOfInput

\* the SDK invokes the upload_stream callback, once: with an error at any time
\* after the channel was opened, with a result once the input has ended
UploadStreamCalledBack(c, error, result) ==
    /\ IsUploadFile(c)
    /\ calls[c].callback = Undefined
    /\ Truthy(error) \/ ChannelEnded(c)
    /\ LET after == UploadStreamCallback(calls[c].promise, logger, error, result)
       IN  /\ calls' = [calls EXCEPT
                    ![c].callback = [error |-> error, result |-> result],
                    ![c].promise = after.promise,
                    ![c].trace = @ \o after.trace]
           /\ logger' = after.logger
    /\ UNCHANGED <<options, config, constructed>>

----------------------------------------------------------------------------
(* uploadFileByPath *)

FilePaths == {Str("/path/to/your/file.jpg")}

\* the callback given to uploader.upload
UploadCallback(promise, log, error, result) ==
    IF Truthy(error)
    THEN [promise |-> reject(promise, error),
          logger |-> Append(log, [level |-> "error", message |-> error]),
          trace |-> <<"logger.error", "reject">>]
    ELSE [promise |-> resolve(promise, result), logger |-> log, trace |-> <<"resolve">>]

uploadFileByPath(filePath, uploadOptions) ==
    /\ CanCall
    /\ calls' = Append(calls, [method |-> "uploadFileByPath",
                               forwarded |-> [api |-> "uploader.upload",
                                              args |-> <<filePath, uploadOptions>>],
                               promise |-> Pending,
                               callback |-> Undefined,
                               trace |-> <<"upload">>])
    /\ UNCHANGED <<options, config, constructed, logger>>

\* the SDK invokes the uploader.upload callback, once
UploadCalledBack(c, error, result) ==
    /\ c \in DOMAIN calls
    /\ calls[c].method = "uploadFileByPath"
    /\ calls[c].callback = Undefined
    /\ LET after == UploadCallback(calls[c].promise, logger, error, result)
       IN  /\ calls' = [calls EXCEPT
                    ![c].callback = [error |-> error, result |-> result],
                    ![c].promise = after.promise,
                    ![c].trace = @ \o after.trace]
           /\ logger' = after.logger
    /\ UNCHANGED <<options, config, constructed>>

----------------------------------------------------------------------------
(* pingCloudinary *)

\* what api.ping() may fulfil with
PingResponses == {[status |-> Str("ok")]}

\* what api.ping() may reject with
PingErrors == {[error |-> [message |-> Str("unknown api_key")]], Undefined}

\* err.error: reading a property of undefined throws a TypeError
ReadThrows(v) == v = Undefined

\* .catch((err) => { warn(...); error(err.error) })
PingCatch(log, err) ==
    LET warned == Append(log, [level |-> "warn", message |-> Str("Cloudinary connection failed.")])
    IN  IF ReadThrows(err)
        THEN [chain |-> Rejected(TypeError), logger |-> warned]
        ELSE [chain |-> Fulfilled(Undefined),
              logger |-> Append(warned, [level |-> "error", message |-> Get(err, "error")])]

\* .then((res) => { log(`Cloudinary connection ${res.status}`) }), whose throw
\* is handed to the .catch that follows it
PingThen(log, res) ==
    IF ReadThrows(res)
    THEN PingCatch(log, TypeError)
    ELSE [chain |-> Fulfilled(Undefined),
          logger |-> Append(log, [level |-> "log",
                                  message |-> Template(<<Str("Cloudinary connection "),
                                                         ToStr(Get(res, "status"))>>)])]

\* pingCloudinary returns undefined at once; chain is the promise .catch() returned,
\* which nothing holds
pingCloudinary ==
    /\ CanCall
    /\ calls' = Append(calls, [method |-> "pingCloudinary",
                               forwarded |-> [api |-> "api.ping", args |-> <<>>],
                               returned |-> Undefined,
                               chain |-> Pending])
    /\ UNCHANGED <<options, config, constructed, logger>>

IsPendingPing(c) ==
    /\ c \in DOMAIN calls
    /\ calls[c].method = "pingCloudinary"
    /\ calls[c].chain = Pending

PingFulfils(c, res) ==
    /\ IsPendingPing(c)
    /\ LET after == PingThen(logger, res)
       IN  /\ calls' = [calls EXCEPT ![c].chain = after.chain]
           /\ logger' = after.logger
    /\ UNCHANGED <<options, config, constructed>>

PingRejects(c, err) ==
    /\ IsPendingPing(c)
    /\ LET after == PingCatch(logger, err)
       IN  /\ calls' = [calls EXCEPT ![c].chain = after.chain]
           /\ logger' = after.logger
    /\ UNCHANGED <<options, config, constructed>>

----------------------------------------------------------------------------
(* The passthroughs: each forwards its arguments to one SDK function and   *)
(* returns what that function returns.                                     *)

PassthroughOptionsSet == {Undefined}

\* the record of a call that hands args to the SDK function api
Forwarded(method, api, args) == [method |-> method, forwarded |-> [api |-> api, args |-> args]]

getAsset(publicId, o) ==
    /\ CanCall
    /\ calls' = Append(calls, Forwarded("getAsset", "api.resource", <<publicId, o>>))
    /\ UNCHANGED <<options, config, constructed, logger>>

listAssets(o) ==
    /\ CanCall
    /\ calls' = Append(calls, Forwarded("listAssets", "api.resources", <<o>>))
    /\ UNCHANGED <<options, config, constructed, logger>>

deleteAssets(publicIds, o) ==
    /\ CanCall
    /\ calls' = Append(calls, Forwarded("deleteAssets", "api.delete_resources", <<publicIds, o>>))
    /\ UNCHANGED <<options, config, constructed, logger>>

updateAsset(publicId, o) ==
    /\ CanCall
    /\ calls' = Append(calls, Forwarded("updateAsset", "api.update", <<publicId, o>>))
    /\ UNCHANGED <<options, config, constructed, logger>>

renameAsset(fromPublicId, toPublicId, o) ==
    /\ CanCall
    /\ calls' = Append(calls, Forwarded("renameAsset", "uploader.rename", <<fromPublicId, toPublicId, o>>))
    /\ UNCHANGED <<options, config, constructed, logger>>

deleteAsset(publicId, o) ==
    /\ CanCall
    /\ calls' = Append(calls, Forwarded("deleteAsset", "uploader.destroy", <<publicId, o>>))
    /\ UNCHANGED <<options, config, constructed, logger>>

getTransformedUrl(publicId, o) ==
    /\ CanCall
    /\ calls' = Append(calls, Forwarded("getTransformedUrl", "url", <<publicId, o>>))
    /\ UNCHANGED <<options, config, constructed, logger>>

getImageTag(publicId, o) ==
    /\ CanCall
    /\ calls' = Append(calls, Forwarded("getImageTag", "image", <<publicId, o>>))
    /\ UNCHANGED <<options, config, constructed, logger>>

getVideoTag(publicId, o) ==
    /\ CanCall
    /\ calls' = Append(calls, Forwarded("getVideoTag", "video", <<publicId, o>>))
    /\ UNCHANGED <<options, config, constructed, logger>>

----------------------------------------------------------------------------

Init ==
    /\ options = Undefined
    /\ config = Undefined
    /\ constructed = FALSE
    /\ logger = <<>>
    /\ calls = <<>>

Next ==
    \/ \E o \in ModuleOptionsSet : Constructor(o)
    \/ \E p \in PublicIds, r \in ResourceTypes, o \in SignedUploadUrlOptionsSet,
          ms \in ClockReadings :
            createSignedUploadUrl(p, r, o, ms)
    \/ \E a \in UploadFileArgs, o \in UploadApiOptionsSet : uploadFile(a[1], o, a[2])
    \/ \E c \in 1..MaxCalls : SharpFulfils(c)
    \/ \E c \in 1..MaxCalls : SharpRejects(c, SharpError)
    \/ \E c \in 1..MaxCalls : StreamFlows(c)
    \/ \E c \in 1..MaxCalls, a \in CallbackArgs : UploadStreamCalledBack(c, a[1], a[2])
    \/ \E p \in FilePaths, o \in UploadApiOptionsSet : uploadFileByPath(p, o)
    \/ \E c \in 1..MaxCalls, a \in CallbackArgs : UploadCalledBack(c, a[1], a[2])
    \/ pingCloudinary
    \/ \E c \in 1..MaxCalls, res \in PingResponses : PingFulfils(c, res)
    \/ \E c \in 1..MaxCalls, err \in PingErrors : PingRejects(c, err)
    \/ \E p \in PublicIds, o \in PassthroughOptionsSet : getAsset(p, o)
    \/ \E o \in PassthroughOptionsSet : listAssets(o)
    \/ \E o \in PassthroughOptionsSet : deleteAssets(List(<<Str("a"), Str("b")>>), o)
    \/ \E p \in PublicIds, o \in PassthroughOptionsSet : updateAsset(p, o)
    \/ \E p \in PublicIds, o \in PassthroughOptionsSet : renameAsset(p, Str("to"), o)
    \/ \E p \in PublicIds, o \in PassthroughOptionsSet : deleteAsset(p, o)
    \/ \E p \in PublicIds, o \in PassthroughOptionsSet : getTransformedUrl(p, o)
    \/ \E p \in PublicIds, o \in PassthroughOptionsSet : getImageTag(p, o)
    \/ \E p \in PublicIds, o \in PassthroughOptionsSet : getVideoTag(p, o)

Spec == Init /\ [][Next]_vars

----------------------------------------------------------------------------
(* Properties. *)

UploadFileCalls == {c \in DOMAIN calls : calls[c].method = "uploadFile"}

UploadCalls == {c \in DOMAIN calls : calls[c].method \in {"uploadFile", "uploadFileByPath"}}

SignCalls == {c \in DOMAIN calls : calls[c].method = "createSignedUploadUrl"}

PingCalls == {c \in DOMAIN calls : calls[c].method = "pingCloudinary"}

\* a occurs in the trace, and some b after it
Precedes(trace, a, b) ==
    \E i, j \in DOMAIN trace : i < j /\ trace[i] = a /\ trace[j] = b

Occurs(trace, a) == \E i \in DOMAIN trace : trace[i] = a

\* the call asks for a resize and the file is an image
WantsResize(c) ==
    /\ Truthy(calls[c].sharpOptions)
    /\ MatchesImage(calls[c].file.mimetype)

\* what sharp returns for the call's buffer and options
ExpectedShrinked(c) ==
    Shrinked(calls[c].file.buffer, Spread([width |-> Num(DefaultWidth)], calls[c].sharpOptions))

C2_ResizeFailureRejects ==
    \A c \in UploadFileCalls :
        calls[c].sharp.state = "failed" =>
            /\ calls[c].promise = Rejected(calls[c].executor.reason)
            /\ \A i \in DOMAIN calls[c].channel.received :
                    calls[c].channel.received[i] # Chunk(calls[c].file.buffer)

\* C3: the promise of uploadFile and of uploadFileByPath is settled by the
\* upload callback and by nothing else, once: rejected with the callback's
\* error, which the logger has written at error severity before the reject,
\* or resolved with the callback's result when it reports no error.
C3_PromiseMirrorsCallback ==
    \A c \in UploadCalls :
        LET cb == calls[c].callback
            tr == calls[c].trace
        IN  /\ cb = Undefined => calls[c].promise = Pending
            /\ (cb # Undefined /\ Truthy(cb.error)) =>
                    /\ calls[c].promise = Rejected(cb.error)
                    /\ \E i \in DOMAIN logger :
                            logger[i] = [level |-> "error", message |-> cb.error]
                    /\ Precedes(tr, "logger.error", "reject")
                    /\ ~Occurs(tr, "resolve")
            /\ (cb # Undefined /\ ~Truthy(cb.error)) =>
                    /\ calls[c].promise = Fulfilled(cb.result)
                    /\ ~Occurs(tr, "reject")

C3_Witness ==
    /\ \E c \in UploadFileCalls : calls[c].promise = Rejected(UploadApiErrorResponse)
    /\ \E c \in UploadCalls :
            /\ calls[c].method = "uploadFileByPath"
            /\ calls[c].promise = Fulfilled(UploadApiResponse)

\* C4: when the file's media type does not start with "image", whatever
\* sharpOptions is, sharp is never invoked and what the channel receives is
\* the caller's buffer followed by end-of-input.
C4_NonImageStreamedUnchanged ==
    \A c \in UploadFileCalls :
        ~MatchesImage(calls[c].file.mimetype) =>
            /\ calls[c].sharp.state = "none"
            /\ ~Occurs(calls[c].trace, "sharp")
            /\ calls[c].channel.received \o calls[c].stream
                    = <<Chunk(calls[c].file.buffer), EndOfInput>>
            /\ calls[c].pc = "done" =>
                    calls[c].channel.received = <<Chunk(calls[c].file.buffer), EndOfInput>>

C4_Witness ==
    \E c \in UploadFileCalls :
        /\ ~MatchesImage(calls[c].file.mimetype)
        /\ Truthy(calls[c].sharpOptions)
        /\ calls[c].pc = "done"
        /\ calls[c].channel.received = <<Chunk(calls[c].file.buffer), EndOfInput>>

\* C5: pingCloudinary never raises and never leaves a rejected promise,
\* whatever the probe fulfils or rejects with.
C5_PingNeverRejects ==
    \A c \in PingCalls :
        /\ calls[c].returned = Undefined
        /\ calls[c].chain.state # "rejected"

\* C6: when the module options hold no usable api_secret, the promise of
\* createSignedUploadUrl is rejected rather than fulfilled with a signature.
C6_AbsentSecretSurfacesError ==
    \A c \in SignCalls :
        ~Truthy(Get(options, "api_secret")) => calls[c].promise.state = "rejected"

\* C7: the returned signature is the signature of {timestamp, folder, eager,
\* public_id} taken from the returned structure itself, under the module's
\* secret; and folder and eager are the caller's where the caller gave them,
\* the defaults' otherwise.
C7_ReturnedValuesAreTheSignedValues ==
    \A c \in SignCalls :
        calls[c].promise.state = "fulfilled" =>
            LET r == calls[c].promise.value
                given == OwnProperties(calls[c].options)
            IN  /\ r.signature = api_sign_request([timestamp |-> r.timestamp,
                                                   folder |-> r.folder,
                                                   eager |-> r.eager,
                                                   public_id |-> r.publicId],
                                                  Get(options, "api_secret"))
                /\ r.publicId = calls[c].publicId
                /\ \A k \in {"folder", "eager"} :
                        r[k] = IF k \in DOMAIN given THEN given[k]
                               ELSE defaultCreateSignedUploadUrlOptions[k]

C7_Witness ==
    \E c \in SignCalls :
        /\ calls[c].promise.state = "fulfilled"
        /\ calls[c].options = [folder |-> Str("f"), eager |-> List(<<Str("w_100")>>)]
        /\ calls[c].promise.value.folder = Str("f")
        /\ calls[c].promise.value.timestamp = Chars(<<"1", "0">>)

SignedUploadUrlFields ==
    {"url", "publicId", "apiKey", "timestamp", "eager", "folder", "signature"}

\* C8: the structure createSignedUploadUrl returns holds url, publicId, apiKey,
\* timestamp, eager, folder and signature, each with a defined value, also when
\* options is omitted, empty, or sets folder or eager to undefined.
C8_AllSevenFieldsDefined ==
    \A c \in SignCalls :
        calls[c].promise.state = "fulfilled" =>
            \A k \in SignedUploadUrlFields :
                /\ k \in DOMAIN calls[c].promise.value
                /\ calls[c].promise.value[k] # Undefined

\* C9: once the constructor has run, no step of any method changes this.options
\* or the configuration given to the SDK handle.
C9_OptionsFrozenAfterConstruction ==
    [][constructed => (options' = options /\ config' = config)]_vars

C9_Witness ==
    /\ constructed
    /\ config = ObjectAssign(options)
    /\ Len(calls) = MaxCalls
    /\ \E c \in SignCalls :
            /\ calls[c].promise.state = "fulfilled"
            /\ calls[c].options = [folder |-> Str("f"), eager |-> List(<<Str("w_100")>>)]

\* C10: when the code of an uploadFile call has run to its end, the channel it
\* opened has received exactly one write followed by exactly one end-of-input.
C10_OpenedChannelIsEnded ==
    \A c \in UploadFileCalls :
        calls[c].pc \in {"done", "thrown"} =>
            /\ Len(calls[c].channel.received) = 2
            /\ DOMAIN calls[c].channel.received[1] = {"write"}
            /\ calls[c].channel.received[2] = EndOfInput

====
